---- MODULE Spec2Model ----
(***************************************************************************)
(* Aurora reader auto-scaler: the scale-up handler                         *)
(* (lambda_builds/autoscale_up.py) and the scale-down handler              *)
(* (lambda_builds/downscale.py) as interleaved processes over one fleet    *)
(* of DB instances and one EventBridge schedule.  One step is one AWS API  *)
(* call together with the local computation that follows it.               *)
(*                                                                         *)
(* CPU values are in tenths of a percent (10.0% is 100).                   *)
(***************************************************************************)
EXTENDS Integers, Sequences, FiniteSets, TLC

VARIABLES
    fleet,     \* RDS: instance identifier -> instance (status "absent": none)
    sched,     \* state of the schedule aurora-cpu-monitor-every-minute
    cfg,       \* environment-variable configuration of the two functions
    up,        \* scale-up invocation -> its local state
    dn         \* scale-down invocation -> its local state

vars == <<fleet, sched, cfg, up, dn>>

(***************************************************************************)
(* Bounds of the model.                                                    *)
(***************************************************************************)
\* identifiers generate_unique_db_identifier can draw from
MaxSuffix == 1
\* latest creation time RDS reports
MaxTime == 3

(***************************************************************************)
(* Configuration and constants of the program.                             *)
(***************************************************************************)
DB_CLUSTER_ID == "target-cluster"
OTHER_CLUSTER == "other-cluster"
NAME_PREFIX == "lambda-aurora-reader"
PREFERRED_INSTANCE_TYPE == "r6i.32xlarge"
CPU_THRESHOLD == 100

NoTag == "(none)"
TagKeys == {"ManagedBy", "AutoScaler", "Purpose"}

REQUIRED_TAGS_FOR_DELETION ==
    [ManagedBy |-> "aurora-autoscaler", AutoScaler |-> "lambda-managed"]

\* a variant whose AutoScaler value differs in case from the required one
LAMBDA_MANAGED_TAGS_cased ==
    [ManagedBy |-> "aurora-autoscaler", AutoScaler |-> "Lambda-Managed",
     Purpose |-> "auto-scaling-reader"]

\* the fixed tags of autoscale_up.py; Purpose stands for the descriptive ones
LAMBDA_MANAGED_TAGS ==
    [ManagedBy |-> "aurora-autoscaler", AutoScaler |-> "lambda-managed",
     Purpose |-> "auto-scaling-reader"]

(***************************************************************************)
(* Instances.  An identifier is a name stem and a suffix; startswith() of  *)
(* the code is a test of the stem.                                         *)
(***************************************************************************)
WriterId == [stem |-> "aurora-instance", n |-> 0]
ReaderId == [stem |-> "aurora-instance", n |-> 1]
OldId == [stem |-> NAME_PREFIX, n |-> 0]
NewIds == {[stem |-> NAME_PREFIX, n |-> k] : k \in 1..MaxSuffix}
AllIds == {WriterId, ReaderId, OldId} \cup NewIds

startswith(id, prefix) == id.stem = prefix

NoInstance ==
    [status |-> "absent", cluster |-> "", az |-> "", writer |-> FALSE,
     ctime |-> 0, tags |-> [k \in TagKeys |-> NoTag]]

Instance(status, cluster, az, writer, ctime, tags) ==
    [status |-> status, cluster |-> cluster, az |-> az, writer |-> writer,
     ctime |-> ctime, tags |-> tags]

Present(f) == {id \in AllIds : f[id].status # "absent"}

SetMax(S) == CHOOSE x \in S : \A y \in S : y <= x

\* the creation time RDS reports once an instance exists: later than all others
NewTime(f) == SetMax({f[id].ctime : id \in AllIds}) + 1

(***************************************************************************)
(* downscale.py: ownership verification.                                   *)
(***************************************************************************)
ApiOutcomes == {"ok", "describe_error", "tags_error"}

\* dict.get(key): the value, or None for a key the resource does not carry
TagGet(tags, key) == IF key \in DOMAIN tags THEN tags[key] ELSE NoTag

\* a variant that is content with one required tag
is_lambda_managed_instance_mut(f, id, api) ==
    /\ api = "ok"
    /\ f[id].status # "absent"
    /\ \E key \in DOMAIN REQUIRED_TAGS_FOR_DELETION :
           TagGet(f[id].tags, key) = REQUIRED_TAGS_FOR_DELETION[key]

is_lambda_managed_instance(f, id, api) ==
    IF api = "describe_error" \/ f[id].status = "absent"
    THEN FALSE   \* describe_db_instances raised, or no such instance
    ELSE IF api = "tags_error"
    THEN FALSE   \* list_tags_for_resource raised
    ELSE LET missing_tags ==
                 {key \in DOMAIN REQUIRED_TAGS_FOR_DELETION :
                      TagGet(f[id].tags, key) # REQUIRED_TAGS_FOR_DELETION[key]}
         IN  missing_tags = {}

\* one call of is_lambda_managed_instance: what it looked up and returned
Verification(f, id, api) ==
    LET found == api # "describe_error" /\ f[id].status # "absent"
    IN  [id |-> id, api |-> api, found |-> found,
         tags |-> IF found /\ api = "ok" THEN f[id].tags
                  ELSE [k \in TagKeys |-> NoTag],
         ok |-> is_lambda_managed_instance(f, id, api)]

(***************************************************************************)
(* notify, the same in both files.  The configuration says whether SNS is  *)
(* off (ENABLE_SNS not true, or no topic), or on with a topic that takes   *)
(* the messages ("ok") or one whose publish call fails ("fail").           *)
(***************************************************************************)
SnsModes == {"off", "ok", "fail"}

\* a variant that lets the exception of sns.publish through
notify_raising(sns) ==
    IF sns = "off" THEN "skipped"
    ELSE IF sns = "ok" THEN "sent"
    ELSE "raised"

\* how a call of notify ends for its caller
notify(sns) ==
    IF sns = "off" THEN "skipped"
    ELSE IF sns = "ok" THEN "sent"
    ELSE "failed"    \* the exception is logged

(***************************************************************************)
(* downscale.py: local state of one invocation of lambda_handler.          *)
(***************************************************************************)
None == [stem |-> "", n |-> 0]

DnIdle ==
    [pc |-> "idle",
     readers |-> {},        \* readers
     metrics |-> <<>>,      \* response['MetricDataResults']: reader -> Values
     instances |-> {},      \* instances
     cand |-> None,         \* latest_id
     checked |-> {},        \* results of the ownership check of latest_id
     deletes |-> {},        \* identifiers passed to delete_db_instance
     result |-> 0,          \* statusCode returned
     exit |-> "",           \* the return statement taken
     rcArgs |-> <<>>,       \* check_and_disable_eventbridge calls still to run
     rcChecked |-> {},      \* ownership checks made by the running call
     tagged |-> {},         \* tagged_lambda_instances of the running call
     seen |-> "",           \* current_state read by the running call
     calls |-> <<>>,        \* how each finished call of
                            \* check_and_disable_eventbridge ended
     notes |-> {},          \* subjects lambda_handler passed to notify
     unsent |-> {}]         \* those of them SNS did not take

\* describe_db_instances()['DBInstances'], the fields downscale.py reads;
\* ctime 0 is an item without the key InstanceCreateTime
Snapshot(f) ==
    {[id |-> id, status |-> f[id].status, ctime |-> f[id].ctime] :
         id \in Present(f)}

\* cluster['DBClusterMembers'] that are not IsClusterWriter
ClusterReaders(f) ==
    {id \in Present(f) : f[id].cluster = DB_CLUSTER_ID /\ ~f[id].writer}

\* Values of one metric query: none, one or two datapoints
SampleLists == {<<>>, <<105>>, <<100>>, <<95, 95>>}

RECURSIVE SeqSum(_)
SeqSum(s) == IF s = <<>> THEN 0 ELSE Head(s) + SeqSum(Tail(s))

\* a variant that takes one value for each result, the mean of its Values
RECURSIVE reader_cpu_values_means(_, _)
reader_cpu_values_means(m, S) ==
    IF S = {} THEN <<>>
    ELSE LET r == CHOOSE x \in S : TRUE
         IN  (IF m[r] = <<>> THEN <<>> ELSE <<SeqSum(m[r]) \div Len(m[r])>>)
                 \o reader_cpu_values_means(m, S \ {r})

\* reader_cpu_values: the Values of every result, extended into one list
RECURSIVE reader_cpu_values(_, _)
reader_cpu_values(m, S) ==
    IF S = {} THEN <<>>
    ELSE LET r == CHOOSE x \in S : TRUE
         IN  m[r] \o reader_cpu_values(m, S \ {r})

\* lambda_readers of step 5
lambda_readers(instances) ==
    {inst \in instances :
         /\ startswith(inst.id, NAME_PREFIX)
         /\ inst.status = "available"
         /\ inst.ctime # 0}

\* a variant that takes the first item of the sorted list
latest_reader_first(lr) ==
    {inst \in lr : \A o \in lr : inst.ctime <= o.ctime}

\* sorted(lambda_readers, key=InstanceCreateTime)[-1]: an item of greatest
\* creation time (among equal times, the one the listing returned last)
latest_reader(lr) == {inst \in lr : \A o \in lr : o.ctime <= inst.ctime}

\* a variant that counts the instances being deleted too
lambda_instances_deleting(instances) ==
    {inst \in instances : startswith(inst.id, NAME_PREFIX)}

\* lambda_instances of check_and_disable_eventbridge
lambda_instances(instances) ==
    {inst \in instances :
         startswith(inst.id, NAME_PREFIX) /\ inst.status # "deleting"}

\* the handler returns: the explicit call of check_and_disable_eventbridge
\* (if the branch makes one) and the call of the finally block follow
Return(d, code, exit, subject, args) ==
    IF notify(cfg.sns) = "raised"
    THEN \* an exception in the try block of lambda_handler: the outer except
         [d EXCEPT !.pc = "rc_verify", !.result = 500, !.exit = "critical",
                   !.notes = @ \cup {subject, "Critical Error"},
                   !.unsent = @ \cup {subject},
                   !.rcArgs = <<d.instances>>, !.metrics = <<>>]
    ELSE [d EXCEPT !.pc = "rc_verify", !.result = code, !.exit = exit,
                   !.notes = @ \cup {subject},
                   !.unsent = IF notify(cfg.sns) = "failed"
                              THEN @ \cup {subject} ELSE @,
                   !.rcArgs = args, !.metrics = <<>>]

\* check_and_disable_eventbridge returns; after the call of the finally block
\* the invocation is over and its locals are gone
EndCall(d, how) ==
    LET rest == Tail(d.rcArgs)
    IN  [d EXCEPT !.calls = Append(@, how),
                  !.rcArgs = rest,
                  !.rcChecked = {},
                  !.tagged = {},
                  !.seen = "",
                  !.readers = IF rest = <<>> THEN {} ELSE @,
                  !.instances = IF rest = <<>> THEN {} ELSE @,
                  !.cand = IF rest = <<>> THEN None ELSE @,
                  !.pc = IF rest = <<>> THEN "done" ELSE "rc_verify"]

(***************************************************************************)
(* downscale.py: lambda_handler, one action per API call.                  *)
(***************************************************************************)
\* the schedule fires while it is enabled
D_Start(p) ==
    /\ dn[p].pc \in {"idle", "done"}
    /\ sched = "ENABLED"
    /\ dn' = [dn EXCEPT ![p] = [DnIdle EXCEPT !.pc = "cluster"]]
    /\ UNCHANGED <<fleet, sched, cfg, up>>

\* step 1: describe_db_clusters
D_DescribeCluster(p) ==
    /\ dn[p].pc = "cluster"
    /\ \E ok \in BOOLEAN :
         LET d == dn[p]
             readers == ClusterReaders(fleet)
         IN  dn' = [dn EXCEPT ![p] =
               IF ~ok
               THEN Return(d, 500, "cluster_error", "Cluster Error",
                           <<d.instances>>)
               ELSE IF readers = {}
               THEN Return(d, 200, "no_readers", "Skipped",
                           <<{}, d.instances>>)
               ELSE [d EXCEPT !.pc = "metrics", !.readers = readers]]
    /\ UNCHANGED <<fleet, sched, cfg, up>>

\* step 2: get_metric_data
D_GetMetricData(p) ==
    /\ dn[p].pc = "metrics"
    /\ \E ok \in BOOLEAN :
         LET d == dn[p]
         IN  IF ~ok
             THEN dn' = [dn EXCEPT ![p] =
                      Return(d, 500, "metrics_error", "Metrics Error",
                             <<d.instances>>)]
             ELSE \E m \in [d.readers -> SampleLists] :
                      dn' = [dn EXCEPT ![p] =
                                 [d EXCEPT !.pc = "decide", !.metrics = m]]
    /\ UNCHANGED <<fleet, sched, cfg, up>>

\* a variant that takes an average equal to the threshold as below it
AboveThreshold_strict(values) ==
    SeqSum(values) > CPU_THRESHOLD * Len(values)

\* avg_cpu >= CPU_THRESHOLD, with avg_cpu = sum(values) / len(values)
AboveThreshold(values) == SeqSum(values) >= CPU_THRESHOLD * Len(values)

\* a variant that takes the absence of datapoints for an idle pool
D_Decide_zero(p) ==
    /\ dn[p].pc = "decide"
    /\ LET d == dn[p]
           values == reader_cpu_values(d.metrics, d.readers)
       IN  dn' = [dn EXCEPT ![p] =
             IF values # <<>> /\ AboveThreshold(values)
             THEN Return(d, 200, "above_threshold", "No Action",
                         <<{}, d.instances>>)
             ELSE [d EXCEPT !.pc = "list"]]
    /\ UNCHANGED <<fleet, sched, cfg, up>>

\* steps 3 and 4: the flat list of datapoints and the scaling decision
D_Decide(p) ==
    /\ dn[p].pc = "decide"
    /\ LET d == dn[p]
           values == reader_cpu_values(d.metrics, d.readers)
       IN  dn' = [dn EXCEPT ![p] =
             IF values = <<>>
             THEN Return(d, 200, "no_data", "No Data", <<{}, d.instances>>)
             ELSE IF AboveThreshold(values)
             THEN Return(d, 200, "above_threshold", "No Action",
                         <<{}, d.instances>>)
             ELSE [d EXCEPT !.pc = "list"]]
    /\ UNCHANGED <<fleet, sched, cfg, up>>

\* a variant that takes a failed listing for an empty one
D_DescribeInstances_lenient(p) ==
    /\ dn[p].pc = "list"
    /\ \E ok \in BOOLEAN :
         LET d == dn[p]
             instances == IF ok THEN Snapshot(fleet) ELSE {}
             lr == lambda_readers(instances)
         IN  IF lr = {}
             THEN dn' = [dn EXCEPT ![p] =
                      Return([d EXCEPT !.instances = instances], 200,
                             "no_lambda_readers", "No Lambda Readers",
                             <<instances, instances>>)]
             ELSE \E latest \in latest_reader(lr) :
                      dn' = [dn EXCEPT ![p] =
                                 [d EXCEPT !.pc = "verify",
                                           !.metrics = <<>>,
                                           !.instances = instances,
                                           !.cand = latest.id]]
    /\ UNCHANGED <<fleet, sched, cfg, up>>

\* step 5: describe_db_instances and the choice of latest_reader
D_DescribeInstances(p) ==
    /\ dn[p].pc = "list"
    /\ \E ok \in BOOLEAN :
         LET d == dn[p]
             instances == Snapshot(fleet)
             lr == lambda_readers(instances)
         IN  IF ~ok
             THEN dn' = [dn EXCEPT ![p] =
                      Return(d, 500, "list_error", "Instance Fetch Error",
                             <<d.instances>>)]
             ELSE IF lr = {}
             THEN dn' = [dn EXCEPT ![p] =
                      Return([d EXCEPT !.instances = instances], 200,
                             "no_lambda_readers", "No Lambda Readers",
                             <<instances, instances>>)]
             ELSE \E latest \in latest_reader(lr) :
                      dn' = [dn EXCEPT ![p] =
                                 [d EXCEPT !.pc = "verify",
                                           !.metrics = <<>>,
                                           !.instances = instances,
                                           !.cand = latest.id]]
    /\ UNCHANGED <<fleet, sched, cfg, up>>

\* a variant that deletes whatever the check returned
D_VerifyCandidate_unchecked(p) ==
    /\ dn[p].pc = "verify"
    /\ \E api \in ApiOutcomes :
         LET d == dn[p]
         IN  dn' = [dn EXCEPT ![p] =
               [d EXCEPT !.pc = "delete",
                         !.checked =
                             @ \cup {Verification(fleet, d.cand, api)}]]
    /\ UNCHANGED <<fleet, sched, cfg, up>>

\* a variant that takes a failed check for a run without candidates
D_VerifyCandidate_skipped(p) ==
    /\ dn[p].pc = "verify"
    /\ \E api \in ApiOutcomes :
         LET d == dn[p]
             ok == is_lambda_managed_instance(fleet, d.cand, api)
             d1 == [d EXCEPT !.checked =
                       @ \cup {Verification(fleet, d.cand, api)}]
         IN  dn' = [dn EXCEPT ![p] =
               IF ~ok
               THEN Return(d1, 200, "no_lambda_readers", "No Lambda Readers",
                           <<d.instances>>)
               ELSE [d1 EXCEPT !.pc = "delete"]]
    /\ UNCHANGED <<fleet, sched, cfg, up>>

\* step 6: the ownership check of latest_id
D_VerifyCandidate(p) ==
    /\ dn[p].pc = "verify"
    /\ \E api \in ApiOutcomes :
         LET d == dn[p]
             ok == is_lambda_managed_instance(fleet, d.cand, api)
             d1 == [d EXCEPT !.checked =
                       @ \cup {Verification(fleet, d.cand, api)}]
         IN  dn' = [dn EXCEPT ![p] =
               IF ~ok
               THEN Return(d1, 403, "blocked", "Security Protection",
                           <<d.instances, d.instances>>)
               ELSE [d1 EXCEPT !.pc = "delete"]]
    /\ UNCHANGED <<fleet, sched, cfg, up>>

\* RDS accepts the deletion of an available instance; when the writer goes,
\* Aurora promotes a remaining available member of the cluster
AfterDelete(f, id) ==
    LET gone == [f EXCEPT ![id].status = "deleting", ![id].writer = FALSE]
        heirs == {r \in AllIds \ {id} : /\ f[r].status = "available"
                                        /\ f[r].cluster = f[id].cluster}
    IN  IF f[id].writer /\ heirs # {}
        THEN {[gone EXCEPT ![r].writer = TRUE] : r \in heirs}
        ELSE {[f EXCEPT ![id].status = "deleting"]}

\* a variant that deletes every available instance of the naming prefix
D_DeleteInstance_all(p) ==
    /\ dn[p].pc = "delete"
    /\ LET d == dn[p]
           lr == {id \in Present(fleet) : /\ startswith(id, NAME_PREFIX)
                                          /\ fleet[id].status = "available"}
           d1 == [d EXCEPT !.deletes = @ \cup lr \cup {d.cand}]
       IN  \/ /\ fleet[d.cand].status = "available"
              /\ fleet' = [id \in AllIds |->
                             IF id \in lr
                             THEN [fleet[id] EXCEPT !.status = "deleting"]
                             ELSE fleet[id]]
              /\ dn' = [dn EXCEPT ![p] =
                     Return(d1, 200, "deleted", "Successful Deletion",
                            <<d.instances>>)]
           \/ /\ fleet' = fleet
              /\ dn' = [dn EXCEPT ![p] =
                     Return(d1, 500, "delete_error", "Deletion Error",
                            <<d.instances>>)]
    /\ UNCHANGED <<sched, cfg, up>>

\* a variant in which RDS accepts the deletion of an instance whatever its
\* status
D_DeleteInstance_twice(p) ==
    /\ dn[p].pc = "delete"
    /\ LET d == dn[p]
           d1 == [d EXCEPT !.deletes = @ \cup {d.cand}]
       IN  \/ /\ fleet[d.cand].status # "absent"
              /\ fleet' = [fleet EXCEPT ![d.cand].status = "deleting"]
              /\ dn' = [dn EXCEPT ![p] =
                     Return(d1, 200, "deleted", "Successful Deletion",
                            <<d.instances>>)]
           \/ /\ fleet' = fleet
              /\ dn' = [dn EXCEPT ![p] =
                     Return(d1, 500, "delete_error", "Deletion Error",
                            <<d.instances>>)]
    /\ UNCHANGED <<sched, cfg, up>>

\* step 6: delete_db_instance
D_DeleteInstance(p) ==
    /\ dn[p].pc = "delete"
    /\ LET d == dn[p]
           d1 == [d EXCEPT !.deletes = @ \cup {d.cand}]
       IN  \/ /\ fleet[d.cand].status = "available"
              /\ fleet' \in AfterDelete(fleet, d.cand)
              /\ dn' = [dn EXCEPT ![p] =
                     Return(d1, 200, "deleted", "Successful Deletion",
                            <<d.instances>>)]
           \/ /\ fleet' = fleet
              /\ dn' = [dn EXCEPT ![p] =
                     Return(d1, 500, "delete_error", "Deletion Error",
                            <<d.instances>>)]
    /\ UNCHANGED <<sched, cfg, up>>

(***************************************************************************)
(* downscale.py: check_and_disable_eventbridge.  Its own notifications     *)
(* change nothing and are not recorded.                                    *)
(***************************************************************************)
\* the ownership check of every lambda instance of the snapshot.  Each
\* check reads RDS now; any of them may fail on its own.
R_Verify(p) ==
    /\ dn[p].pc = "rc_verify"
    /\ LET d == dn[p]
           li == {inst.id : inst \in lambda_instances(Head(d.rcArgs))}
       IN  \E api \in [li -> ApiOutcomes] :
             LET tagged_lambda_instances ==
                     {id \in li : is_lambda_managed_instance(fleet, id, api[id])}
             IN  dn' = [dn EXCEPT ![p] =
                         [d EXCEPT !.pc = "rc_branch",
                                   !.rcChecked =
                                       {Verification(fleet, id, api[id]) :
                                            id \in li},
                                   !.tagged = tagged_lambda_instances]]
    /\ UNCHANGED <<fleet, sched, cfg, up>>

\* a variant that disables the schedule although tagged instances remain
R_Keep_disable(p) ==
    /\ dn[p].pc = "rc_branch"
    /\ dn[p].tagged # {}
    /\ sched' = "DISABLED"
    /\ dn' = [dn EXCEPT ![p] = EndCall(dn[p], "kept")]
    /\ UNCHANGED <<fleet, cfg, up>>

\* tagged instances remain: the schedule is left as it is
R_Keep(p) ==
    /\ dn[p].pc = "rc_branch"
    /\ dn[p].tagged # {}
    /\ dn' = [dn EXCEPT ![p] = EndCall(dn[p], "kept")]
    /\ UNCHANGED <<fleet, sched, cfg, up>>

\* a variant that updates the schedule whatever state it read
R_GetSchedule_always(p) ==
    /\ dn[p].pc = "rc_branch"
    /\ dn[p].tagged = {}
    /\ \E r \in {"ok", "not_found", "error"} :
         LET d == dn[p]
         IN  dn' = [dn EXCEPT ![p] =
               IF r # "ok" THEN EndCall(d, "read_failed")
               ELSE [d EXCEPT !.pc = "rc_update", !.seen = sched]]
    /\ UNCHANGED <<fleet, sched, cfg, up>>

\* none remain: scheduler.get_schedule; return if it fails or if the
\* schedule is disabled already
R_GetSchedule(p) ==
    /\ dn[p].pc = "rc_branch"
    /\ dn[p].tagged = {}
    /\ \E r \in {"ok", "not_found", "error"} :
         LET d == dn[p]
         IN  dn' = [dn EXCEPT ![p] =
               IF r # "ok" THEN EndCall(d, "read_failed")
               ELSE IF sched = "DISABLED" THEN EndCall(d, "already_disabled")
               ELSE [d EXCEPT !.pc = "rc_update", !.seen = sched]]
    /\ UNCHANGED <<fleet, sched, cfg, up>>

\* scheduler.update_schedule(State="DISABLED")
R_UpdateSchedule(p) ==
    /\ dn[p].pc = "rc_update"
    /\ \E ok \in BOOLEAN :
         /\ sched' = IF ok THEN "DISABLED" ELSE sched
         /\ dn' = [dn EXCEPT ![p] =
                EndCall(dn[p], IF ok THEN "disabled" ELSE "update_failed")]
    /\ UNCHANGED <<fleet, cfg, up>>

(***************************************************************************)
(* autoscale_up.py: local state of one invocation of lambda_handler.       *)
(***************************************************************************)
UpIdle ==
    [pc |-> "idle",
     readers_per_az |-> <<>>,   \* readers_per_az
     sorted_azs |-> <<>>,       \* sorted_azs
     phase |-> "",              \* the loop running: preferred or fallback
     i |-> 0,                   \* position of the outer fallback loop
     j |-> 0,                   \* position of the inner (or preferred) loop
     probes |-> <<>>,           \* the calls of check_capacity made
     db_identifier |-> None,    \* the identifier create_reader_instance
                                \* generated last
     capacity |-> "",           \* what the last one returned
     reserved |-> 0,            \* reservations it made and left standing
     created |-> <<>>,          \* identifiers create_db_instance accepted
     seen |-> "",               \* schedule['State'] read
     updates |-> 0,             \* calls of update_schedule made
     schedErr |-> FALSE,        \* a call to the scheduler failed
     result |-> 0,              \* statusCode returned
     notes |-> {},              \* subjects lambda_handler passed to notify
     unsent |-> {}]             \* those of them SNS did not take

SeqToSet(s) == {s[k] : k \in 1..Len(s)}

\* get_aurora_readers_per_az: healthy readers of the cluster per configured AZ
get_aurora_readers_per_az(f, azs) ==
    [az \in SeqToSet(azs) |->
        Cardinality({id \in Present(f) :
            /\ f[id].cluster = DB_CLUSTER_ID
            /\ ~f[id].writer
            /\ f[id].status \notin {"deleting", "insufficient activity"}
            /\ f[id].az = az})]

\* sorted(): a stable sort, here by insertion behind every key not greater
RECURSIVE InsertByKey(_, _, _)
InsertByKey(x, s, key) ==
    IF s = <<>> THEN <<x>>
    ELSE IF key[x] < key[Head(s)] THEN <<x>> \o s
    ELSE <<Head(s)>> \o InsertByKey(x, Tail(s), key)

\* a variant that puts an element before those of equal key
RECURSIVE InsertBeforeEqual(_, _, _)
InsertBeforeEqual(x, s, key) ==
    IF s = <<>> THEN <<x>>
    ELSE IF key[x] <= key[Head(s)] THEN <<x>> \o s
    ELSE <<Head(s)>> \o InsertBeforeEqual(x, Tail(s), key)

RECURSIVE sorted_unstable(_, _)
sorted_unstable(s, key) ==
    IF s = <<>> THEN <<>>
    ELSE InsertBeforeEqual(s[Len(s)],
                           sorted_unstable(SubSeq(s, 1, Len(s) - 1), key), key)

RECURSIVE sorted(_, _)
sorted(s, key) ==
    IF s = <<>> THEN <<>>
    ELSE InsertByKey(s[Len(s)], sorted(SubSeq(s, 1, Len(s) - 1), key), key)

\* a variant that walks the fallback types from the last to the first
Candidate_reversed(u) ==
    IF u.phase = "preferred"
    THEN [type |-> PREFERRED_INSTANCE_TYPE, az |-> u.sorted_azs[u.j]]
    ELSE IF cfg.strategy = "instance-priority"
    THEN [type |-> cfg.types[Len(cfg.types) + 1 - u.i],
          az |-> u.sorted_azs[u.j]]
    ELSE [type |-> cfg.types[Len(cfg.types) + 1 - u.j],
          az |-> u.sorted_azs[u.i]]

\* a variant whose az-priority loop starts at the fullest zone
Candidate_fullest(u) ==
    IF u.phase = "preferred"
    THEN [type |-> PREFERRED_INSTANCE_TYPE, az |-> u.sorted_azs[u.j]]
    ELSE IF cfg.strategy = "instance-priority"
    THEN [type |-> cfg.types[u.i], az |-> u.sorted_azs[u.j]]
    ELSE [type |-> cfg.types[u.j],
          az |-> u.sorted_azs[Len(u.sorted_azs) + 1 - u.i]]

\* the (instance type, AZ) the running loop is at
Candidate(u) ==
    IF u.phase = "preferred"
    THEN [type |-> PREFERRED_INSTANCE_TYPE, az |-> u.sorted_azs[u.j]]
    ELSE IF cfg.strategy = "instance-priority"
    THEN [type |-> cfg.types[u.i], az |-> u.sorted_azs[u.j]]
    ELSE [type |-> cfg.types[u.j], az |-> u.sorted_azs[u.i]]

OuterLen(u) ==
    IF cfg.strategy = "instance-priority" THEN Len(cfg.types)
    ELSE Len(u.sorted_azs)

InnerLen(u) ==
    IF u.phase = "preferred" \/ cfg.strategy = "instance-priority"
    THEN Len(u.sorted_azs)
    ELSE Len(cfg.types)

\* the handler returns; of its locals the zone order is kept, as the order
\* the probes made are to be read against
UpReturn(u, code, subjects) ==
    [u EXCEPT !.pc = "done",
              !.result = IF subjects # {} /\ notify(cfg.sns) = "raised"
                         THEN 500 ELSE code,
              !.notes = @ \cup subjects,
              !.unsent = IF notify(cfg.sns) \in {"failed", "raised"}
                         THEN @ \cup subjects ELSE @,
              !.seen = "", !.phase = "", !.i = 0, !.j = 0,
              !.readers_per_az = <<>>]

\* a variant that tries the candidate that failed once more
NextCandidate_retry(u) == [u EXCEPT !.pc = "probe"]

\* a variant that leaves the preferred loop at its first failure
NextCandidate_early(u) ==
    IF u.phase = "preferred"
    THEN [u EXCEPT !.pc = "probe", !.phase = "fallback", !.i = 1, !.j = 1]
    ELSE IF u.j < InnerLen(u) THEN [u EXCEPT !.pc = "probe", !.j = @ + 1]
    ELSE IF u.i < OuterLen(u)
    THEN [u EXCEPT !.pc = "probe", !.i = @ + 1, !.j = 1]
    ELSE UpReturn(u, 503, {"Aurora Scaling Failed"})

\* a variant whose step 5 sends no notification
NextCandidate_quiet(u) ==
    IF u.j < InnerLen(u) THEN [u EXCEPT !.pc = "probe", !.j = @ + 1]
    ELSE IF u.phase = "preferred"
    THEN [u EXCEPT !.pc = "probe", !.phase = "fallback", !.i = 1, !.j = 1]
    ELSE IF u.i < OuterLen(u)
    THEN [u EXCEPT !.pc = "probe", !.i = @ + 1, !.j = 1]
    ELSE UpReturn(u, 503, {})

\* the loops advance; after the last candidate step 5 returns 503
NextCandidate(u) ==
    IF u.j < InnerLen(u) THEN [u EXCEPT !.pc = "probe", !.j = @ + 1]
    ELSE IF u.phase = "preferred"
    THEN [u EXCEPT !.pc = "probe", !.phase = "fallback", !.i = 1, !.j = 1]
    ELSE IF u.i < OuterLen(u)
    THEN [u EXCEPT !.pc = "probe", !.i = @ + 1, !.j = 1]
    ELSE UpReturn(u, 503, {"Aurora Scaling Failed"})

(***************************************************************************)
(* autoscale_up.py: lambda_handler, one action per API call.  The          *)
(* notifications of enable_eventbridge_rule change nothing and are not     *)
(* recorded.                                                               *)
(***************************************************************************)
\* an RDS insufficient-capacity event arrives
U_Start(p) ==
    /\ up[p].pc \in {"idle", "done"}
    /\ up' = [up EXCEPT ![p] = [UpIdle EXCEPT !.pc = "dist"]]
    /\ UNCHANGED <<fleet, sched, cfg, dn>>

\* a variant in which the exception of get_aurora_readers_per_az is not
\* caught
U_Distribution_uncaught(p) ==
    /\ up[p].pc = "dist"
    /\ \E ok \in BOOLEAN :
         up' = [up EXCEPT ![p] =
           IF ~ok
           THEN [@ EXCEPT !.pc = "raised"]
           ELSE [@ EXCEPT !.pc = "sort",
                          !.readers_per_az =
                              get_aurora_readers_per_az(fleet, cfg.azs)]]
    /\ UNCHANGED <<fleet, sched, cfg, dn>>

\* step 1: get_aurora_readers_per_az (describe_db_instances)
U_Distribution(p) ==
    /\ up[p].pc = "dist"
    /\ \E ok \in BOOLEAN :
         up' = [up EXCEPT ![p] =
           IF ~ok
           THEN UpReturn(@, 500, {"Aurora AutoScaler Critical Error"})
           ELSE [@ EXCEPT !.pc = "sort",
                          !.readers_per_az =
                              get_aurora_readers_per_az(fleet, cfg.azs)]]
    /\ UNCHANGED <<fleet, sched, cfg, dn>>

\* step 2: the AZs by ascending reader count; the preferred loop starts
U_Sort(p) ==
    /\ up[p].pc = "sort"
    /\ up' = [up EXCEPT ![p] =
                 [@ EXCEPT !.pc = "probe",
                           !.sorted_azs =
                               sorted(cfg.azs, up[p].readers_per_az),
                           !.readers_per_az = <<>>,
                           !.phase = "preferred", !.j = 1]]
    /\ UNCHANGED <<fleet, sched, cfg, dn>>

\* how a call of EC2 ends: it succeeds, or raises a ClientError that names
\* InsufficientInstanceCapacity, another ClientError (permissions,
\* throttling, a rejected parameter), or an exception that is no
\* ClientError (no connection, a timeout, a parameter botocore rejects)
Ec2Outcomes == {"ok", "insufficient", "client_error", "other_error"}

\* check_capacity: create_capacity_reservation, then
\* cancel_capacity_reservation if it succeeded; what the call returns and
\* how many reservations it leaves standing
check_capacity(reserve, cancel) ==
    IF reserve = "ok"
    THEN IF cancel = "ok" THEN [returns |-> "True", reserved |-> 0]
         ELSE IF cancel = "other_error"
         THEN [returns |-> "raised", reserved |-> 1]
         ELSE [returns |-> "False", reserved |-> 1]
    ELSE IF reserve = "other_error"
    THEN [returns |-> "raised", reserved |-> 0]
    ELSE [returns |-> "False", reserved |-> 0]

\* one call of check_capacity from the loops of lambda_handler; an
\* exception it lets through ends the invocation with 500
U_CheckCapacity(p) ==
    /\ up[p].pc = "probe"
    /\ \E reserve \in Ec2Outcomes :
       \E cancel \in IF reserve = "ok" THEN Ec2Outcomes ELSE {""} :
         LET r == check_capacity(reserve, cancel)
             u == [up[p] EXCEPT !.probes = Append(@, Candidate(up[p])),
                                !.db_identifier = None,
                                !.capacity = r.returns,
                                !.reserved = r.reserved]
         IN  up' = [up EXCEPT ![p] =
               IF r.returns = "True" THEN [u EXCEPT !.pc = "create"]
               ELSE IF r.returns = "False" THEN NextCandidate(u)
               ELSE UpReturn(u, 500, {"Aurora AutoScaler Critical Error"})]
    /\ UNCHANGED <<fleet, sched, cfg, dn>>

\* a variant that goes on to the next candidate after a creation
U_CreateInstance_continue(p) ==
    /\ up[p].pc = "create"
    /\ \E db_identifier \in NewIds :
         LET c == Candidate(up[p])
             u == up[p]
         IN  \/ /\ fleet[db_identifier].status = "absent"
                /\ fleet' = [fleet EXCEPT ![db_identifier] =
                       Instance("creating", DB_CLUSTER_ID, c.az, FALSE, 0,
                                LAMBDA_MANAGED_TAGS)]
                /\ up' = [up EXCEPT ![p] =
                       NextCandidate(
                           [u EXCEPT !.created = Append(@, db_identifier),
                                     !.notes = @ \cup
                                         {"Aurora Reader Created"}])]
             \/ /\ fleet' = fleet
                /\ up' = [up EXCEPT ![p] =
                       NextCandidate([u EXCEPT !.notes = @ \cup
                           {"Aurora Reader Creation Failed"}])]
    /\ UNCHANGED <<sched, cfg, dn>>

\* a variant in which a failed creation ends the invocation
U_CreateInstance_abort(p) ==
    /\ up[p].pc = "create"
    /\ \E db_identifier \in NewIds :
         LET c == Candidate(up[p])
             u == up[p]
         IN  \/ /\ fleet[db_identifier].status = "absent"
                /\ fleet' = [fleet EXCEPT ![db_identifier] =
                       Instance("creating", DB_CLUSTER_ID, c.az, FALSE, 0,
                                LAMBDA_MANAGED_TAGS)]
                /\ up' = [up EXCEPT ![p] =
                       [u EXCEPT !.pc = "en_get",
                                 !.created = Append(@, db_identifier),
                                 !.notes = @ \cup {"Aurora Reader Created"}]]
             \/ /\ fleet' = fleet
                /\ up' = [up EXCEPT ![p] =
                       UpReturn(u, 500, {"Aurora Reader Creation Failed"})]
    /\ UNCHANGED <<sched, cfg, dn>>

\* a call of notify by create_reader_instance
Notified(u, subject) ==
    [u EXCEPT !.notes = @ \cup {subject},
              !.unsent = IF notify(cfg.sns) = "failed"
                         THEN @ \cup {subject} ELSE @]

\* generate_unique_db_identifier: the prefix, the time to the second and six
\* hexadecimal digits of a uuid4; nothing is looked up, so a call may return
\* what a call of the same second returned
generate_unique_db_identifier == NewIds

\* create_reader_instance: create_db_instance under a generated identifier
U_CreateInstance(p) ==
    /\ up[p].pc = "create"
    /\ \E db_identifier \in generate_unique_db_identifier :
         LET c == Candidate(up[p])
             u == [up[p] EXCEPT !.db_identifier = db_identifier]
         IN  \/ /\ fleet[db_identifier].status = "absent"
                /\ fleet' = [fleet EXCEPT ![db_identifier] =
                       Instance("creating", DB_CLUSTER_ID, c.az, FALSE, 0,
                                LAMBDA_MANAGED_TAGS)]
                /\ up' = [up EXCEPT ![p] =
                       [Notified(u, "Aurora Reader Created") EXCEPT
                            !.pc = "en_get",
                            !.created = Append(@, db_identifier)]]
             \/ /\ fleet' = fleet
                /\ up' = [up EXCEPT ![p] =
                       NextCandidate(
                           Notified(u, "Aurora Reader Creation Failed"))]
    /\ UNCHANGED <<sched, cfg, dn>>

\* a variant in which a failed get_schedule fails the invocation
U_GetSchedule_fatal(p) ==
    /\ up[p].pc = "en_get"
    /\ \E ok \in BOOLEAN :
         up' = [up EXCEPT ![p] =
           IF ~ok
           THEN UpReturn([@ EXCEPT !.schedErr = TRUE], 500,
                         {"Aurora AutoScaler Critical Error"})
           ELSE IF sched # "ENABLED"
           THEN [@ EXCEPT !.pc = "en_update", !.seen = sched]
           ELSE UpReturn(@, 200, {})]
    /\ UNCHANGED <<fleet, sched, cfg, dn>>

\* enable_eventbridge_rule: get_schedule
U_GetSchedule(p) ==
    /\ up[p].pc = "en_get"
    /\ \E ok \in BOOLEAN :
         up' = [up EXCEPT ![p] =
           IF ok /\ sched # "ENABLED"
           THEN [@ EXCEPT !.pc = "en_update", !.seen = sched]
           ELSE UpReturn([@ EXCEPT !.schedErr = ~ok], 200, {})]
    /\ UNCHANGED <<fleet, sched, cfg, dn>>

\* a variant whose update leaves the state of the schedule as it was
U_UpdateSchedule_same(p) ==
    /\ up[p].pc = "en_update"
    /\ LET u == [up[p] EXCEPT !.updates = @ + 1]
       IN  \E ok \in BOOLEAN :
             /\ sched' = IF ok THEN up[p].seen ELSE sched
             /\ up' = [up EXCEPT ![p] =
                    UpReturn([u EXCEPT !.schedErr = ~ok], 200, {})]
    /\ UNCHANGED <<fleet, cfg, dn>>

\* enable_eventbridge_rule: update_schedule(State="ENABLED")
U_UpdateSchedule(p) ==
    /\ up[p].pc = "en_update"
    /\ LET u == [up[p] EXCEPT !.updates = @ + 1]
       IN  \E ok \in BOOLEAN :
             /\ sched' = IF ok THEN "ENABLED" ELSE sched
             /\ up' = [up EXCEPT ![p] =
                    UpReturn([u EXCEPT !.schedErr = ~ok], 200, {})]
    /\ UNCHANGED <<fleet, cfg, dn>>

(***************************************************************************)
(* RDS, out of band.                                                       *)
(***************************************************************************)
\* a created instance becomes available and reports its creation time
EnvAvailable(id) ==
    /\ fleet[id].status = "creating"
    /\ NewTime(fleet) <= MaxTime
    /\ fleet' = [fleet EXCEPT ![id].status = "available",
                              ![id].ctime = NewTime(fleet)]
    /\ UNCHANGED <<sched, cfg, up, dn>>

\* a deleted instance is gone
EnvGone(id) ==
    /\ fleet[id].status = "deleting"
    /\ fleet' = [fleet EXCEPT ![id] = NoInstance]
    /\ UNCHANGED <<sched, cfg, up, dn>>

(***************************************************************************)
(* Initial states.                                                         *)
(***************************************************************************)
UpProcs == {"up1", "up2"}
DnProcs == {"down1", "down2"}

NoTags == [k \in TagKeys |-> NoTag]

\* every value a tag may have for the code: absent, the required or usual
\* value, another value
TagUniverse ==
    {t \in [TagKeys -> {NoTag, "other"}
                       \cup {LAMBDA_MANAGED_TAGS[k] : k \in TagKeys}] :
         \A k \in TagKeys : t[k] \in {NoTag, "other", LAMBDA_MANAGED_TAGS[k]}}

\* a cluster with its first instance, a hand-made second one or none, an
\* older instance named like a lambda reader (o) and one a scale-up made
\* (n); the writer is the first instance or, after a failover, the older
\* lambda-named one
Fleets(O, N) ==
    {[id \in AllIds |->
        CASE id = WriterId ->
               Instance("available", DB_CLUSTER_ID, "az-a", w = WriterId, 1,
                        NoTags)
          [] id = ReaderId -> r
          [] id = OldId -> IF o.status = "absent" THEN o
                           ELSE [o EXCEPT !.writer = (w = OldId)]
          [] id = [stem |-> NAME_PREFIX, n |-> 1] -> n
          [] OTHER -> NoInstance] :
      w \in {WriterId, OldId},
      r \in {NoInstance,
             Instance("available", DB_CLUSTER_ID, "az-b", FALSE, 2, NoTags)},
      o \in O, n \in N}

\* exactly one writer in the cluster
WellFormed(f) ==
    Cardinality({id \in Present(f) :
                     f[id].cluster = DB_CLUSTER_ID /\ f[id].writer}) = 1

OldOwned == Instance("available", DB_CLUSTER_ID, "az-a", FALSE, 3,
                     LAMBDA_MANAGED_TAGS)
OldElsewhere == Instance("available", OTHER_CLUSTER, "az-a", FALSE, 3,
                         LAMBDA_MANAGED_TAGS)
NewCreating == Instance("creating", DB_CLUSTER_ID, "az-b", FALSE, 0,
                        LAMBDA_MANAGED_TAGS)
NewAvailable == Instance("available", DB_CLUSTER_ID, "az-b", FALSE, 4,
                         LAMBDA_MANAGED_TAGS)

OneZoneConfig ==
    [azs |-> <<"az-a">>, types |-> <<"r7i.48xlarge">>,
     strategy |-> "instance-priority", sns |-> "off"]

\* the defaults of AVAILABILITY_ZONES and INSTANCE_TYPES_PRIORITY, under
\* either FALLBACK_STRATEGY
ThreeZoneConfigs ==
    {[azs |-> <<"az-a", "az-b", "az-c">>,
      types |-> <<"r7i.48xlarge", "r6id.32xlarge">>,
      strategy |-> st, sns |-> "off"] :
          st \in {"instance-priority", "az-priority"}}

\* readers spread over the configured zones and one that is not
\* configured, of the cluster or of another one, available, being deleted or
\* out of capacity
ZoneFleets ==
    {[id \in AllIds |->
        CASE id = WriterId ->
               Instance("available", DB_CLUSTER_ID, "az-a", TRUE, 1, NoTags)
          [] id = ReaderId ->
               IF zr = "" THEN NoInstance
               ELSE Instance("available", cr, zr, FALSE, 2, NoTags)
          [] id = OldId ->
               IF zo = "" THEN NoInstance
               ELSE Instance(so, DB_CLUSTER_ID, zo, FALSE, 3,
                             LAMBDA_MANAGED_TAGS)
          [] id = [stem |-> NAME_PREFIX, n |-> 1] ->
               IF zn = "" THEN NoInstance
               ELSE Instance("available", DB_CLUSTER_ID, zn, FALSE, 4,
                             LAMBDA_MANAGED_TAGS)
          [] OTHER -> NoInstance] :
      zr \in {"", "az-a", "az-d"},
      cr \in {DB_CLUSTER_ID, OTHER_CLUSTER},
      zo \in {"", "az-a", "az-c"},
      so \in {"available", "deleting", "insufficient-capacity"},
      zn \in {"", "az-b", "az-c"}}

Idle ==
    /\ up = [p \in UpProcs |-> UpIdle]
    /\ dn = [p \in DnProcs |-> DnIdle]

\* the deployed system: the cluster with its writer alone, no instance of
\* the auto-scaler, the schedule disabled
Init ==
    /\ fleet \in {f \in Fleets({NoInstance}, {NoInstance}) :
                     f[WriterId].writer /\ f[ReaderId].status = "absent"}
    /\ sched = "DISABLED"
    /\ cfg = OneZoneConfig
    /\ Idle

\* two scale-down invocations run only if the schedule was enabled
InitDD ==
    /\ fleet \in {f \in Fleets({NoInstance, OldOwned, OldElsewhere,
                                 [OldOwned EXCEPT !.tags.AutoScaler = "other"]},
                                {NoInstance}) : WellFormed(f)}
    /\ sched = "ENABLED"
    /\ cfg = OneZoneConfig
    /\ Idle

\* one scale-down invocation, over every tag set of the older instance
InitDown ==
    /\ fleet \in {f \in Fleets({NoInstance, OldElsewhere} \cup
                                 {[OldOwned EXCEPT !.tags = t] :
                                      t \in TagUniverse},
                                {NoInstance, NewCreating, NewAvailable}) :
                     WellFormed(f)}
    /\ sched = "ENABLED"
    /\ cfg = OneZoneConfig
    /\ Idle

\* one scale-up invocation, over zone distributions and both strategies
InitUp ==
    /\ fleet \in ZoneFleets
    /\ sched \in {"ENABLED", "DISABLED"}
    /\ cfg \in ThreeZoneConfigs
    /\ Idle

DownStep(p) ==
    \/ D_Start(p)
    \/ D_DescribeCluster(p)
    \/ D_GetMetricData(p)
    \/ D_Decide(p)
    \/ D_DescribeInstances(p)
    \/ D_VerifyCandidate(p)
    \/ D_DeleteInstance(p)
    \/ R_Verify(p)
    \/ R_Keep(p)
    \/ R_GetSchedule(p)
    \/ R_UpdateSchedule(p)

UpStep(p) ==
    \/ U_Start(p)
    \/ U_Distribution(p)
    \/ U_Sort(p)
    \/ U_CheckCapacity(p)
    \/ U_CreateInstance(p)
    \/ U_GetSchedule(p)
    \/ U_UpdateSchedule(p)

Env == \E id \in AllIds : EnvAvailable(id) \/ EnvGone(id)

\* one scale-up and one scale-down invocation at a time, interleaved
Next == UpStep("up1") \/ DownStep("down1") \/ Env

Spec == Init /\ [][Next]_vars

\* two scale-down invocations at a time, interleaved
NextDD ==
    \/ DownStep("down1")
    \/ DownStep("down2")
    \/ \E id \in AllIds : EnvGone(id)

SpecDD == InitDD /\ [][NextDD]_vars

\* scale-down invocations one after the other
NextDown == DownStep("down1") \/ Env

SpecDown == InitDown /\ [][NextDown]_vars

\* scale-up invocations one after the other
NextUp == UpStep("up1") \/ Env

SpecUp == InitUp /\ [][NextUp]_vars

\* both functions on a cluster with its writer, an instance of the
\* auto-scaler and a hand-made reader or none, the schedule in either state
InitLive ==
    /\ fleet \in {f \in Fleets({OldOwned}, {NoInstance}) : f[WriterId].writer}
    /\ sched \in {"ENABLED", "DISABLED"}
    /\ cfg = OneZoneConfig
    /\ Idle

\* invocations of the two functions, one at a time
LiveUp == dn["down1"].pc \in {"idle", "done"} /\ UpStep("up1")
LiveDown == up["up1"].pc \in {"idle", "done"} /\ DownStep("down1")

NextLive == LiveUp \/ LiveDown

\* the Lambda runtime runs an invocation it started to its end
SpecLive ==
    /\ InitLive
    /\ [][NextLive]_vars
    /\ WF_vars(LiveUp)
    /\ WF_vars(LiveDown)

\* the same with SNS off, on, or on with a topic whose publish call fails
InitSns ==
    /\ fleet \in {f \in Fleets({OldOwned}, {NoInstance}) : f[WriterId].writer}
    /\ sched \in {"ENABLED", "DISABLED"}
    /\ cfg \in {[OneZoneConfig EXCEPT !.sns = m] : m \in SnsModes}
    /\ Idle

SpecSns == InitSns /\ [][NextLive]_vars

\* both functions under the default zones, types and strategy, on a cluster
\* with an instance of the auto-scaler and a newer one or none
InitOnce ==
    /\ fleet \in {f \in Fleets({OldOwned}, {NoInstance, NewAvailable}) :
                     f[WriterId].writer /\ f[ReaderId].status = "absent"}
    /\ sched = "ENABLED"
    /\ cfg \in {c \in ThreeZoneConfigs : c.strategy = "az-priority"}
    /\ Idle

SpecOnce == InitOnce /\ [][NextLive]_vars

\* invocations of the two functions, one at a time, and RDS
NextFair == LiveUp \/ LiveDown \/ Env

\* the steps of a scale-up invocation after its start
LiveUpRest == up["up1"].pc \notin {"idle", "done"} /\ LiveUp

\* the deployed system: the Lambda runtime runs an invocation it started to
\* its end, and the schedule fires at every tick while it is enabled, so a
\* scale-down runs again and again whatever scale-up does; a scale-up need
\* not start
SpecFair ==
    /\ Init
    /\ [][NextFair]_vars
    /\ WF_vars(LiveUpRest)
    /\ SF_vars(LiveDown)

\* an instance somebody made by hand under the naming prefix, later than
\* the instances of the auto-scaler
NewUnowned == [NewAvailable EXCEPT !.tags = NoTags]

\* the schedule is enabled and ticks: scale-down invocations one after the
\* other over a cluster with an owned instance, a newer owned or hand-made
\* one or one being created, or none
InitTick ==
    /\ fleet \in {f \in Fleets({NoInstance, OldOwned},
                                {NoInstance, NewCreating, NewAvailable,
                                 NewUnowned}) : f[WriterId].writer}
    /\ sched = "ENABLED"
    /\ cfg = OneZoneConfig
    /\ Idle

\* EventBridge Scheduler invokes the function at every tick of an enabled
\* schedule and the Lambda runtime runs an invocation to its end
SpecTick ==
    /\ InitTick
    /\ [][NextDown]_vars
    /\ WF_vars(DownStep("down1"))

(***************************************************************************)
(* Properties.                                                             *)
(***************************************************************************)
Last(s) == s[Len(s)]

\* the calls of check_and_disable_eventbridge in which the scheduler failed
SchedulerFailures == {"read_failed", "update_failed"}

SchedulerFailed(d) ==
    \E k \in 1..Len(d.calls) : d.calls[k] \in SchedulerFailures

\* the instances the verifier accepts: named by the controller, not being
\* deleted, carrying both required tags
OwnedInstances(f) ==
    {id \in Present(f) :
         /\ id.stem = NAME_PREFIX
         /\ f[id].status # "deleting"
         /\ f[id].tags["ManagedBy"] = "aurora-autoscaler"
         /\ f[id].tags["AutoScaler"] = "lambda-managed"}

\* a call of check_and_disable_eventbridge by p returns in this step
CallReturns(p) == Len(dn'[p].calls) = Len(dn[p].calls) + 1

\* C1: a scale-down invocation passes an instance to delete_db_instance only
\* after its own ownership check of that instance returned true; an instance
\* whose check returned false is never passed to it.
C1_DeleteOnlyAfterVerification ==
    \A p \in DnProcs :
        /\ dn[p].pc = "delete" =>
               \E rec \in dn[p].checked : rec.id = dn[p].cand /\ rec.ok
        /\ \A id \in dn[p].deletes :
               \E rec \in dn[p].checked : rec.id = id /\ rec.ok
        /\ \A rec \in dn[p].checked : ~rec.ok => rec.id \notin dn[p].deletes

C1_Witness ==
    \E p \in DnProcs :
        /\ dn[p].exit = "deleted"
        /\ \E id \in dn[p].deletes : fleet[id].status = "deleting"

\* C2: is_lambda_managed_instance returns true exactly when both lookups
\* succeed, the instance exists and ManagedBy and AutoScaler carry their
\* required values; no other tag enters the result.
C2_VerifierExact ==
    \A p \in DnProcs :
        \A rec \in dn[p].checked \cup dn[p].rcChecked :
            rec.ok <=> /\ rec.api = "ok"
                       /\ rec.found
                       /\ rec.tags["ManagedBy"] = "aurora-autoscaler"
                       /\ rec.tags["AutoScaler"] = "lambda-managed"

C2_Witness ==
    \E p \in DnProcs :
        /\ \E rec \in dn[p].checked : rec.ok /\ rec.tags["Purpose"] = "other"
        /\ \E rec \in dn[p].rcChecked : ~rec.found

\* C3: the instance a scale-down invocation selects for deletion is never
\* the writer of the cluster.
C3_CandidateNotWriter ==
    \A p \in DnProcs :
        dn[p].pc \in {"verify", "delete"} => ~fleet[dn[p].cand].writer

\* C4: a scale-down run that ends on the no-readers, no-samples or
\* at-or-above-threshold branch, with no scheduler failure, does not leave
\* the schedule disabled while an owned instance exists.
C4_NoOpKeepsTick ==
    \A p \in DnProcs :
        ( /\ dn[p].pc = "done"
          /\ dn[p].exit \in {"no_readers", "no_data", "above_threshold"}
          /\ ~SchedulerFailed(dn[p])
          /\ OwnedInstances(fleet) # {} )
        => sched = "ENABLED"

\* the instances of the snapshot check_and_disable_eventbridge verifies
\* are those with the naming prefix and a status other than deleting
C5_Filter ==
    \A p \in DnProcs :
        dn[p].pc \in {"rc_branch", "rc_update"} =>
            /\ {rec.id : rec \in dn[p].rcChecked} =
                   {i.id : i \in {x \in Head(dn[p].rcArgs) :
                                      /\ x.id.stem = NAME_PREFIX
                                      /\ x.status # "deleting"}}
            /\ dn[p].tagged = {rec.id : rec \in {x \in dn[p].rcChecked : x.ok}}

\* C5 as stated: a call of check_and_disable_eventbridge returns with the
\* schedule disabled if none of the filtered instances was verified, and
\* leaves the schedule alone otherwise.
C5_DisabledIffNoneVerified ==
    [][\A p \in DnProcs :
          CallReturns(p) =>
              IF dn[p].tagged = {} THEN sched' = "DISABLED"
              ELSE sched' = sched]_vars

\* C5: a call of check_and_disable_eventbridge returns with the schedule
\* disabled if none of the filtered instances was verified, unless reading
\* or updating the schedule failed, and leaves the schedule alone otherwise
\* and on such a failure.
C5_DisabledIffNoneVerifiedUnlessFailure ==
    /\ []C5_Filter
    /\ [][\A p \in DnProcs :
            CallReturns(p) =>
                IF dn[p].tagged = {} /\ Last(dn'[p].calls) \notin SchedulerFailures
                THEN sched' = "DISABLED"
                ELSE sched' = sched]_vars

C5_Witness ==
    \E p \in DnProcs :
        /\ dn[p].calls # <<>>
        /\ Last(dn[p].calls) = "disabled"
        /\ sched = "DISABLED"

\* C6: update_schedule is called only by a call that read the schedule in
\* the other state: enable_eventbridge_rule on an enabled schedule and
\* check_and_disable_eventbridge on a disabled one update nothing, so a
\* second call in a row changes nothing.
C6_UpdateOnlyOnChange ==
    /\ \A p \in UpProcs :
           /\ up[p].pc = "en_update" => up[p].seen = "DISABLED"
           /\ up[p].updates <= 1
    /\ \A p \in DnProcs :
           dn[p].pc = "rc_update" => dn[p].seen = "ENABLED"

C6_Witness ==
    \E p \in DnProcs :
        /\ dn[p].pc = "done"
        /\ dn[p].calls = <<"disabled", "already_disabled">>
        /\ \E q \in UpProcs : up[q].result = 200 /\ up[q].updates = 0
                              /\ ~up[q].schedErr

\* C7: when a scale-down invocation is over, check_and_disable_eventbridge
\* has run exactly once.
C7_ReconcileExactlyOnce ==
    \A p \in DnProcs : dn[p].pc = "done" => Len(dn[p].calls) = 1

\* C8: a call of check_and_disable_eventbridge that verified at least one
\* instance of its snapshot returns with the schedule enabled.
C8_KeepEnablesTick ==
    [][\A p \in DnProcs :
          (CallReturns(p) /\ dn[p].tagged # {}) => sched' = "ENABLED"]_vars

\* C9: when the ownership check of the selected candidate fails, the
\* invocation returns 403 (blocked), passes nothing to delete_db_instance and
\* has run check_and_disable_eventbridge by the time it is over.
C9_BlockedCandidate ==
    \A p \in DnProcs :
        \A rec \in dn[p].checked :
            ~rec.ok =>
                /\ dn[p].result = 403
                /\ dn[p].exit = "blocked"
                /\ dn[p].deletes = {}
                /\ dn[p].pc \in {"rc_verify", "rc_branch", "rc_update", "done"}
                /\ dn[p].pc = "done" => Len(dn[p].calls) >= 1

C9_Witness ==
    \E p \in DnProcs :
        /\ dn[p].pc = "done"
        /\ dn[p].exit = "blocked"
        /\ dn[p].calls # <<>>
        /\ \E rec \in dn[p].checked : rec.api = "ok" /\ rec.found /\ ~rec.ok

\* C10: the first probe of a scale-up invocation is of the preferred type,
\* and before any probe of another type the preferred type has been probed
\* in every configured zone.
C10_PreferredFirst ==
    \A p \in UpProcs :
        LET probes == up[p].probes
        IN  /\ probes # <<>> => probes[1].type = PREFERRED_INSTANCE_TYPE
            /\ \A k \in 1..Len(probes) :
                   probes[k].type # PREFERRED_INSTANCE_TYPE =>
                       \A az \in SeqToSet(cfg.azs) :
                           \E m \in 1..(k - 1) :
                               probes[m] = [type |-> PREFERRED_INSTANCE_TYPE,
                                            az |-> az]

C10_Witness ==
    \E p \in UpProcs :
        /\ cfg.strategy = "az-priority"
        /\ Len(up[p].probes) > Len(cfg.azs)
        /\ up[p].probes[1].az # cfg.azs[1]
        /\ Last(up[p].probes).type # PREFERRED_INSTANCE_TYPE

\* position of x in the sequence s (0 if it is not there)
IndexOf(s, x) ==
    IF \E k \in 1..Len(s) : s[k] = x
    THEN CHOOSE k \in 1..Len(s) : s[k] = x
    ELSE 0

\* C11: under instance-priority, for fallback types A before B in
\* INSTANCE_TYPES_PRIORITY, every probe of A, in whatever zone, comes before
\* every probe of B.
C11_InstancePriorityOrder ==
    \A p \in UpProcs :
        cfg.strategy = "instance-priority" =>
            \A k, m \in 1..Len(up[p].probes) :
                LET a == IndexOf(cfg.types, up[p].probes[m].type)
                    b == IndexOf(cfg.types, up[p].probes[k].type)
                IN  (a > 0 /\ a < b) => m < k

C11_Witness ==
    \E p \in UpProcs :
        /\ cfg.strategy = "instance-priority"
        /\ up[p].probes # <<>>
        /\ Last(up[p].probes).type = cfg.types[2]
        /\ \E m \in 1..Len(up[p].probes) : up[p].probes[m].type = cfg.types[1]

\* C12 as stated: under az-priority, for zones Z1 before Z2 in sorted_azs,
\* every probe in Z1, of whatever type, comes before every probe in Z2.
C12_ZoneOrderAllTypes ==
    \A p \in UpProcs :
        cfg.strategy = "az-priority" =>
            \A k, m \in 1..Len(up[p].probes) :
                IndexOf(up[p].sorted_azs, up[p].probes[m].az)
                    < IndexOf(up[p].sorted_azs, up[p].probes[k].az)
                => m < k

\* C12: under az-priority, for zones Z1 before Z2 in sorted_azs, every probe
\* of a fallback type in Z1 comes before every probe of a fallback type in
\* Z2, and the preferred type is probed in Z1 before it is probed in Z2.
C12_ZoneOrderFallbackTypes ==
    \A p \in UpProcs :
        cfg.strategy = "az-priority" =>
            \A k, m \in 1..Len(up[p].probes) :
                ( /\ IndexOf(up[p].sorted_azs, up[p].probes[m].az)
                         < IndexOf(up[p].sorted_azs, up[p].probes[k].az)
                  /\ (up[p].probes[m].type = PREFERRED_INSTANCE_TYPE)
                         <=> (up[p].probes[k].type = PREFERRED_INSTANCE_TYPE) )
                => m < k

C12_Witness ==
    \E p \in UpProcs :
        /\ cfg.strategy = "az-priority"
        /\ up[p].sorted_azs # cfg.azs
        /\ Len(up[p].probes) = Len(cfg.azs) + Len(cfg.types) + 1
        /\ Last(up[p].probes) = [type |-> cfg.types[1],
                                 az |-> up[p].sorted_azs[2]]

\* the probes of an invocation in which no candidate is taken, over the
\* zone order z: the preferred type in every zone, then the fallback types
\* in the order of the strategy
AllProbes(z, types, strategy) ==
    LET n == Len(z)
        t == Len(types)
        preferred == [k \in 1..n |->
                         [type |-> PREFERRED_INSTANCE_TYPE, az |-> z[k]]]
        fallback == [k \in 1..(t * n) |->
                        IF strategy = "instance-priority"
                        THEN [type |-> types[((k - 1) \div n) + 1],
                              az |-> z[((k - 1) % n) + 1]]
                        ELSE [type |-> types[((k - 1) % t) + 1],
                              az |-> z[((k - 1) \div t) + 1]]]
    IN  preferred \o fallback

\* z lists the zones of azs by ascending count, equal counts in the order
\* of azs
AscendingStable(z, azs, count) ==
    /\ Len(z) = Len(azs)
    /\ SeqToSet(z) = SeqToSet(azs)
    /\ \A a, b \in 1..Len(z) :
           a < b => \/ count[z[a]] < count[z[b]]
                    \/ /\ count[z[a]] = count[z[b]]
                       /\ IndexOf(azs, z[a]) < IndexOf(azs, z[b])

C13_Probes ==
    \A p \in UpProcs :
        LET all == AllProbes(up[p].sorted_azs, cfg.types, cfg.strategy)
        IN  /\ Len(up[p].probes) <= Len(all)
            /\ up[p].probes = SubSeq(all, 1, Len(up[p].probes))
            /\ up[p].result = 503 => up[p].probes = all

\* C13: the zones are probed in ascending order of the reader counts read,
\* equal counts in configuration order; the probes made are a prefix of the
\* preferred type over that order followed by the fallback candidates in
\* strategy order, and all of them when the invocation ends with 503.
C13_ProbeSequence ==
    /\ []C13_Probes
    /\ [][\A p \in UpProcs :
            (up[p].pc = "sort" /\ up'[p].pc = "probe") =>
                AscendingStable(up'[p].sorted_azs, cfg.azs,
                                up[p].readers_per_az)]_vars

C13_Witness ==
    \E p \in UpProcs :
        /\ cfg.strategy = "instance-priority"
        /\ up[p].result = 503
        /\ Cardinality({id \in Present(fleet) : ~fleet[id].writer
                            /\ fleet[id].az = "az-a"}) = 2
        /\ Cardinality({id \in Present(fleet) : fleet[id].az = "az-c"}) = 1
        /\ up[p].probes =
               <<[type |-> PREFERRED_INSTANCE_TYPE, az |-> "az-b"],
                 [type |-> PREFERRED_INSTANCE_TYPE, az |-> "az-a"],
                 [type |-> PREFERRED_INSTANCE_TYPE, az |-> "az-c"],
                 [type |-> "r7i.48xlarge", az |-> "az-b"],
                 [type |-> "r7i.48xlarge", az |-> "az-a"],
                 [type |-> "r7i.48xlarge", az |-> "az-c"],
                 [type |-> "r6id.32xlarge", az |-> "az-b"],
                 [type |-> "r6id.32xlarge", az |-> "az-a"],
                 [type |-> "r6id.32xlarge", az |-> "az-c"]>>

\* C14: an invocation creates at most one instance; once it has created
\* one it makes no further probe and no further creation request, and it
\* returns 200.
C14_StopsAtFirstSuccess ==
    /\ [](\A p \in UpProcs :
             /\ Len(up[p].created) <= 1
             /\ up[p].created # <<>> =>
                    /\ up[p].pc \in {"en_get", "en_update", "done"}
                    /\ up[p].pc = "done" => up[p].result = 200)
    /\ [][\A p \in UpProcs :
            (up[p].created # <<>> /\ up'[p].pc # "dist") =>
                /\ up'[p].probes = up[p].probes
                /\ up'[p].created = up[p].created
                /\ up'[p].pc # "create"]_vars

C14_Witness ==
    \E p \in UpProcs :
        /\ up[p].pc = "done"
        /\ up[p].result = 200
        /\ Len(up[p].created) = 1
        /\ fleet[up[p].created[1]].status = "creating"
        /\ fleet[up[p].created[1]].az = Last(up[p].probes).az
        /\ Len(up[p].probes) = 2

\* C15: when a candidate's probe returned true and its creation request
\* fails, the invocation goes on: it probes the next candidate of the
\* sequence, or returns 503 if there is none; it does not return an error.
C15_CreationFailureContinues ==
    [][\A p \in UpProcs :
          ( /\ up[p].pc = "create"
            /\ up'[p] # up[p]
            /\ up'[p].created = up[p].created )
          => /\ fleet' = fleet
             /\ up'[p].probes = up[p].probes
             /\ "Aurora Reader Creation Failed" \in up'[p].notes
             /\ IF Len(up[p].probes)
                       < Len(AllProbes(up[p].sorted_azs, cfg.types,
                                       cfg.strategy))
                THEN up'[p].pc = "probe"
                ELSE up'[p].pc = "done" /\ up'[p].result = 503]_vars

C15_Witness ==
    \E p \in UpProcs :
        /\ up[p].pc = "done"
        /\ up[p].result = 200
        /\ "Aurora Reader Creation Failed" \in up[p].notes
        /\ Len(up[p].created) = 1
        /\ Last(up[p].probes).type # PREFERRED_INSTANCE_TYPE

\* C16: an invocation that has tried every candidate without creating an
\* instance returns 503 with the notification "Aurora Scaling Failed"; it
\* has created nothing and made no call to the scheduler.
C16_NoCapacityResult ==
    /\ [](\A p \in UpProcs :
             /\ up[p].result = 503 =>
                    /\ up[p].pc = "done"
                    /\ "Aurora Scaling Failed" \in up[p].notes
                    /\ up[p].created = <<>>
                    /\ up[p].updates = 0
                    /\ ~up[p].schedErr
                    /\ up[p].probes = AllProbes(up[p].sorted_azs, cfg.types,
                                                cfg.strategy)
             /\ ( /\ up[p].pc = "done"
                  /\ up[p].created = <<>>
                  /\ up[p].result # 500 ) => up[p].result = 503)
    /\ [][\A p \in UpProcs :
            (up'[p].result = 503 /\ up[p].result # 503) =>
                /\ up[p].pc \in {"probe", "create"}
                /\ sched' = sched
                /\ fleet' = fleet]_vars

C16_Witness ==
    \E p \in UpProcs :
        /\ up[p].pc = "done"
        /\ up[p].result = 503
        /\ Len(up[p].probes) = (1 + Len(cfg.types)) * Len(cfg.azs)
        /\ sched = "DISABLED"

\* C17: check_capacity never raises to its caller: whatever way the reserve
\* or the release call ends, the call returns true or false, so no probe
\* ends with an exception.
C17_ProbeNeverRaises ==
    \A p \in UpProcs : up[p].capacity \in {"", "True", "False"}

\* C18: whenever check_capacity returns true or false, no capacity
\* reservation created by that call is still standing.
C18_NoReservationOutstanding ==
    \A p \in UpProcs :
        up[p].capacity \in {"True", "False"} => up[p].reserved = 0

\* C19: get_aurora_readers_per_az returns a mapping whose keys are exactly
\* the configured zones and whose value for a zone is the number of
\* instances of the target cluster that are not the writer, are in that zone
\* and whose status is neither deleting nor insufficient-capacity.
HealthyReaders(f, az) ==
    {id \in Present(f) :
        /\ f[id].cluster = DB_CLUSTER_ID
        /\ ~f[id].writer
        /\ f[id].az = az
        /\ f[id].status \notin {"deleting", "insufficient-capacity"}}

C19_ReadersPerAz ==
    [][\A p \in UpProcs :
         (up[p].pc = "dist" /\ up'[p].pc = "sort") =>
             /\ DOMAIN up'[p].readers_per_az = SeqToSet(cfg.azs)
             /\ \A az \in SeqToSet(cfg.azs) :
                    up'[p].readers_per_az[az] =
                        Cardinality(HealthyReaders(fleet, az))]_vars

\* C20: when the average of the CPU datapoints of the pool is greater than
\* or equal to the threshold, the scale-down invocation returns without a
\* call of delete_db_instance and leaves the fleet as it is; when the average
\* is strictly below the threshold, it goes on to the selection of the
\* candidate.
C20_ThresholdDecision ==
    /\ [](\A p \in DnProcs :
             dn[p].exit = "above_threshold" =>
                 /\ dn[p].deletes = {}
                 /\ dn[p].result = 200
                 /\ dn[p].cand = None
                 /\ "No Action" \in dn[p].notes)
    /\ [][\A p \in DnProcs :
            /\ (dn[p].pc = "decide" /\ dn'[p] # dn[p]) =>
                 LET values == reader_cpu_values(dn[p].metrics, dn[p].readers)
                 IN  /\ ( /\ values # <<>>
                          /\ SeqSum(values) >= CPU_THRESHOLD * Len(values) ) =>
                             /\ dn'[p].exit = "above_threshold"
                             /\ dn'[p].pc = "rc_verify"
                             /\ fleet' = fleet
                     /\ ( /\ values # <<>>
                          /\ SeqSum(values) < CPU_THRESHOLD * Len(values) ) =>
                             /\ dn'[p].pc = "list"
                             /\ dn'[p].exit = ""
            /\ (dn'[p] # dn[p] /\ dn'[p].exit = "above_threshold") =>
                 fleet' = fleet]_vars

C20_Witness ==
    \E p \in DnProcs :
        /\ dn[p].pc = "done"
        /\ dn[p].exit = "above_threshold"
        /\ dn[p].calls # <<>>
        /\ OwnedInstances(fleet) # {}

\* C21: the average the scale-down decision uses is the sum of all datapoints
\* of all readers divided by their total number, not the mean of the means
\* of the readers; a reader without datapoints contributes nothing, and the
\* two averages differ when the readers return uneven numbers of datapoints.
RECURSIVE SumOver(_, _)
SumOver(f, S) ==
    IF S = {} THEN 0
    ELSE LET r == CHOOSE x \in S : TRUE IN f[r] + SumOver(f, S \ {r})

\* sum and number of all datapoints of a response
FlatSum(m) == SumOver([r \in DOMAIN m |-> SeqSum(m[r])], DOMAIN m)
FlatCount(m) == SumOver([r \in DOMAIN m |-> Len(m[r])], DOMAIN m)

\* the readers that returned datapoints and the sum of their means, in
\* hundredths of a tenth so that the division is exact for the samples used
Reporting(m) == {r \in DOMAIN m : m[r] # <<>>}
MeanSum(m) ==
    SumOver([r \in DOMAIN m |->
                 IF m[r] = <<>> THEN 0 ELSE (SeqSum(m[r]) * 100) \div Len(m[r])],
            DOMAIN m)

C21_FlatAverage ==
    [][\A p \in DnProcs :
         (dn[p].pc = "decide" /\ dn'[p] # dn[p]) =>
             LET m == dn[p].metrics
             IN  /\ DOMAIN m = dn[p].readers
                 /\ FlatCount(m) > 0 =>
                      ( dn'[p].exit = "above_threshold"
                          <=> FlatSum(m) >= CPU_THRESHOLD * FlatCount(m) )
                 /\ FlatCount(m) > 0 =>
                      ( dn'[p].pc = "list"
                          <=> FlatSum(m) < CPU_THRESHOLD * FlatCount(m) )]_vars

\* the invocation went on to the selection although the mean of the means
\* of the readers is not below the threshold
C21_Witness ==
    \E p \in DnProcs :
        LET m == dn[p].metrics
        IN  /\ dn[p].pc = "list"
            /\ m # <<>>
            /\ \E r1, r2 \in Reporting(m) : Len(m[r1]) # Len(m[r2])
            /\ \E r \in DOMAIN m : m[r] = <<>>
            /\ FlatSum(m) < CPU_THRESHOLD * FlatCount(m)
            /\ MeanSum(m) >= CPU_THRESHOLD * 100 * Cardinality(Reporting(m))

\* C22: when no reader returned a datapoint, the scale-down invocation takes
\* no scaling decision: it returns the no-data result without selecting a
\* candidate and without a call of delete_db_instance, and the fleet is as
\* it was.
C22_NoDataNoDecision ==
    /\ [](\A p \in DnProcs :
             dn[p].exit = "no_data" =>
                 /\ dn[p].result = 200
                 /\ dn[p].deletes = {}
                 /\ dn[p].cand = None
                 /\ dn[p].checked = {}
                 /\ "No Data" \in dn[p].notes)
    /\ [][\A p \in DnProcs :
            /\ (dn[p].pc = "decide" /\ dn'[p] # dn[p]) =>
                 ( FlatCount(dn[p].metrics) = 0
                     <=> (dn'[p].exit = "no_data" /\ dn'[p].pc = "rc_verify") )
            /\ (dn'[p] # dn[p] /\ dn'[p].exit = "no_data") =>
                 fleet' = fleet]_vars

\* the run is over with the no-data result while an instance that a
\* scale-down would have selected and deleted is there
C22_Witness ==
    \E p \in DnProcs :
        /\ dn[p].pc = "done"
        /\ dn[p].exit = "no_data"
        /\ dn[p].calls # <<>>
        /\ \E id \in OwnedInstances(fleet) : fleet[id].status = "available"

\* C23: the candidate of a scale-down is an instance of the listing whose
\* identifier has the naming prefix, whose status is available and which
\* reports a creation time, and no other such instance of the listing was
\* created later.
Eligible(f) ==
    {id \in Present(f) : /\ id.stem = NAME_PREFIX
                         /\ f[id].status = "available"
                         /\ f[id].ctime # 0}

C23_LatestEligible ==
    [][\A p \in DnProcs :
         (dn[p].pc = "list" /\ dn'[p] # dn[p]) =>
             /\ dn'[p].pc = "verify" =>
                  /\ dn'[p].cand \in Eligible(fleet)
                  /\ \A id \in Eligible(fleet) :
                         fleet[id].ctime <= fleet[dn'[p].cand].ctime
             /\ (dn'[p].pc # "verify" /\ dn'[p].exit # "list_error") =>
                  Eligible(fleet) = {}
             /\ dn'[p].pc # "verify" => dn'[p].cand = None]_vars

\* a candidate was chosen from a listing with an older eligible instance
C23_Witness ==
    \E p \in DnProcs :
        /\ dn[p].pc = "verify"
        /\ \E o \in dn[p].instances :
               /\ o.id # dn[p].cand /\ o.id.stem = NAME_PREFIX
               /\ o.status = "available" /\ o.ctime # 0
               /\ \E c \in dn[p].instances :
                      c.id = dn[p].cand /\ o.ctime < c.ctime

FatalExits ==
    [cluster_error |-> "Cluster Error", metrics_error |-> "Metrics Error",
     list_error |-> "Instance Fetch Error"]

C25_FatalErrorsAbort ==
    /\ [](\A p \in DnProcs :
             dn[p].exit \in DOMAIN FatalExits =>
                 /\ dn[p].result = 500
                 /\ FatalExits[dn[p].exit] \in dn[p].notes
                 /\ dn[p].deletes = {}
                 /\ dn[p].cand = None
                 /\ dn[p].pc \in {"rc_verify", "rc_branch", "rc_update", "done"})
    /\ [][\A p \in DnProcs :
            /\ ( /\ dn[p].pc = "cluster" /\ dn'[p] # dn[p]
                 /\ ClusterReaders(fleet) # {} /\ dn'[p].pc # "metrics" ) =>
                   dn'[p].exit = "cluster_error"
            /\ (dn[p].pc = "metrics" /\ dn'[p] # dn[p] /\ dn'[p].pc # "decide") =>
                   dn'[p].exit = "metrics_error"
            /\ ( /\ dn[p].pc = "list" /\ dn'[p] # dn[p]
                 /\ Eligible(fleet) # {} /\ dn'[p].pc # "verify" ) =>
                   dn'[p].exit = "list_error"
            /\ (dn'[p] # dn[p] /\ dn'[p].exit \in DOMAIN FatalExits) =>
                   fleet' = fleet]_vars

\* the run ended on a failed listing while an instance it would have
\* selected is in the fleet, available
C25_Witness ==
    \E p \in DnProcs :
        /\ dn[p].pc = "done"
        /\ dn[p].exit = "list_error"
        /\ dn[p].result = 500
        /\ \E id \in Eligible(fleet) : id \in OwnedInstances(fleet)

\* C26: neither handler ends with an exception: whatever calls fail, an
\* invocation that started comes to its end and returns a result with a
\* status code, a failure of the distribution analysis of a scale-up gives
\* 500, and an invocation whose result is 500 has made no change to the
\* fleet.
UpRunning == {"dist", "sort", "probe", "create", "en_get", "en_update"}
DnRunning ==
    {"cluster", "metrics", "decide", "list", "verify", "delete",
     "rc_verify", "rc_branch", "rc_update"}

C26_AlwaysReturns ==
    /\ [](\A p \in UpProcs :
             /\ up[p].pc \in UpRunning \cup {"idle", "done"}
             /\ up[p].pc = "done" => up[p].result \in {200, 500, 503}
             /\ up[p].result = 500 => up[p].created = <<>>)
    /\ [](\A p \in DnProcs :
             /\ dn[p].pc \in DnRunning \cup {"idle", "done"}
             /\ dn[p].pc = "done" => dn[p].result \in {200, 403, 500})
    /\ [][\A p \in UpProcs :
            /\ (up[p].pc = "dist" /\ up'[p].pc = "done") =>
                   up'[p].result = 500
            /\ (up'[p] # up[p] /\ up'[p].result = 500) => fleet' = fleet]_vars
    /\ [][\A p \in DnProcs :
            (dn'[p] # dn[p] /\ dn'[p].result = 500) => fleet' = fleet]_vars
    /\ \A p \in {"up1"} : (up[p].pc \in UpRunning) ~> (up[p].pc = "done")
    /\ \A p \in {"down1"} : (dn[p].pc \in DnRunning) ~> (dn[p].pc = "done")

\* a scale-up whose distribution analysis failed is over with 500, and a
\* scale-down is over with 500 after a failed delete call
C26_Witness ==
    /\ up["up1"].pc = "done" /\ up["up1"].result = 500
    /\ up["up1"].probes = <<>>
    /\ dn["down1"].pc = "done" /\ dn["down1"].exit = "delete_error"

\* C27: a failure of get_schedule or update_schedule, in the arming of a
\* scale-up or in the reconciliation of a scale-down, changes nothing of the
\* result of the invocation: the scale-up that created its instance returns
\* 200 whether the calls succeed or fail, and the steps of
\* check_and_disable_eventbridge leave the result of the scale-down as the
\* handler set it.
C27_SchedulerFailureSwallowed ==
    /\ [](\A p \in UpProcs :
             /\ up[p].schedErr =>
                    /\ up[p].pc = "done"
                    /\ up[p].result = 200
                    /\ up[p].created # <<>>
             /\ up[p].pc \in {"en_get", "en_update"} => up[p].created # <<>>)
    /\ [][\A p \in UpProcs :
            (up[p].pc \in {"en_get", "en_update"} /\ up'[p] # up[p]) =>
                /\ up'[p].pc \in {"en_update", "done"}
                /\ up'[p].pc = "done" => up'[p].result = 200
                /\ up'[p].created = up[p].created
                /\ fleet' = fleet]_vars
    /\ [][\A p \in DnProcs :
            (dn[p].pc \in {"rc_verify", "rc_branch", "rc_update"}
                 /\ dn'[p] # dn[p]) =>
                /\ dn'[p].result = dn[p].result
                /\ dn'[p].exit = dn[p].exit
                /\ dn'[p].deletes = dn[p].deletes
                /\ dn'[p].pc \in {"rc_verify", "rc_branch", "rc_update", "done"}
                /\ fleet' = fleet]_vars

\* a scale-up returned 200 after a failed scheduler call, and a scale-down
\* is over after a failed read or update of the schedule
C27_Witness ==
    /\ up["up1"].pc = "done" /\ up["up1"].schedErr
    /\ up["up1"].result = 200
    /\ dn["down1"].pc = "done"
    /\ dn["down1"].result \in {200, 403, 500}
    /\ \E k \in 1..Len(dn["down1"].calls) :
           dn["down1"].calls[k] \in {"read_failed", "update_failed"}

\* C28: a failure of notify changes nothing of a run: with a topic whose
\* publish call fails, every return of the scale-down carries the status
\* code of its branch, the scale-up returns 200 exactly when it created an
\* instance, and the calls made on the fleet and on the schedule after a
\* failed notification are those of the branch.
ExitCodes ==
    [cluster_error |-> 500, no_readers |-> 200, metrics_error |-> 500,
     no_data |-> 200, above_threshold |-> 200, list_error |-> 500,
     no_lambda_readers |-> 200, blocked |-> 403, deleted |-> 200,
     delete_error |-> 500]

C28_NotifyFailureHarmless ==
    /\ [](\A p \in DnProcs :
             /\ dn[p].unsent \subseteq dn[p].notes
             /\ dn[p].unsent = IF cfg.sns = "fail" THEN dn[p].notes ELSE {}
             /\ dn[p].exit # "" =>
                    /\ dn[p].exit \in DOMAIN ExitCodes
                    /\ dn[p].result = ExitCodes[dn[p].exit]
             /\ dn[p].exit = "deleted" <=>
                    \E id \in dn[p].deletes : fleet[id].status = "deleting")
    /\ [](\A p \in UpProcs :
             /\ up[p].unsent = IF cfg.sns = "fail" THEN up[p].notes ELSE {}
             /\ up[p].pc = "done" =>
                    /\ up[p].result = 200 <=> up[p].created # <<>>
                    /\ up[p].result = 503 =>
                           "Aurora Scaling Failed" \in up[p].notes
             /\ "Aurora Reader Created" \in up[p].notes <=>
                    up[p].created # <<>>)
    /\ [][\A p \in UpProcs :
            (up[p].pc = "create" /\ up'[p] # up[p]) =>
                /\ up'[p].created # up[p].created => up'[p].pc = "en_get"
                /\ up'[p].created = up[p].created =>
                       /\ "Aurora Reader Creation Failed" \in up'[p].notes
                       /\ up'[p].pc \in {"probe", "done"}
                       /\ up'[p].pc = "done" => up'[p].result = 503]_vars
    /\ [][\A p \in DnProcs :
            (dn[p].pc \notin {"idle", "done"} /\ dn'[p] # dn[p]
                 /\ dn'[p].notes # dn[p].notes) =>
                dn'[p].pc = "rc_verify"]_vars

\* with the failing topic a scale-up created its instance after a failed
\* creation and a scale-down deleted its candidate, none of their
\* notifications sent
C28_Witness ==
    /\ cfg.sns = "fail"
    /\ up["up1"].pc = "done" /\ up["up1"].result = 200
    /\ {"Aurora Reader Creation Failed", "Aurora Reader Created"}
           \subseteq up["up1"].unsent
    /\ dn["down1"].pc = "done" /\ dn["down1"].exit = "deleted"
    /\ "Successful Deletion" \in dn["down1"].unsent

\* C29: when a scale-up invocation returns 200 and neither get_schedule nor
\* update_schedule failed, the schedule is enabled at the return, whatever
\* its state was before.
C29_SuccessArmsTick ==
    [][\A p \in UpProcs :
         ( /\ up[p].pc # "done" /\ up'[p].pc = "done"
           /\ up'[p].result = 200 /\ ~up'[p].schedErr ) =>
               sched' = "ENABLED"]_vars

\* a scale-up found the schedule disabled, enabled it and returned 200
C29_Witness ==
    \E p \in UpProcs :
        /\ up[p].pc = "done" /\ up[p].result = 200
        /\ ~up[p].schedErr
        /\ up[p].updates = 1
        /\ sched = "ENABLED"

\* C30: a scale-up never reuses an identifier: the identifier of a call of
\* create_db_instance is not the identifier of an instance that a call made
\* before it, by this or by another invocation, has created.
C30_FreshIdentifier ==
    [][\A p \in UpProcs :
         (up[p].pc = "create" /\ up'[p] # up[p]) =>
             fleet[up'[p].db_identifier].status = "absent"]_vars

IsPrefix(s, t) == Len(s) <= Len(t) /\ \A k \in 1..Len(s) : s[k] = t[k]

C32_NoRetry ==
    /\ [](\A p \in UpProcs :
             /\ Len(up[p].probes) <= (1 + Len(cfg.types)) * Len(cfg.azs)
             /\ \A k, m \in 1..Len(up[p].probes) :
                    k # m => up[p].probes[k] # up[p].probes[m]
             /\ up[p].probes # <<>> =>
                    IsPrefix(up[p].probes,
                             AllProbes(up[p].sorted_azs, cfg.types,
                                       cfg.strategy))
             /\ Len(up[p].created) <= 1)
    /\ [][\A p \in UpProcs :
            (up[p].pc \in {"probe", "create"} /\ up'[p] # up[p]) =>
                /\ \/ up'[p].probes = up[p].probes
                   \/ \E x \in [type : {PREFERRED_INSTANCE_TYPE}
                                           \cup SeqToSet(cfg.types),
                                az : SeqToSet(cfg.azs)] :
                          up'[p].probes = Append(up[p].probes, x)
                /\ up[p].pc = "create" =>
                       /\ up'[p].probes = up[p].probes
                       /\ up'[p].pc \in {"probe", "en_get", "done"}
                       /\ up'[p].pc = "probe" =>
                              Candidate(up'[p]) \notin SeqToSet(up[p].probes)]_vars
    /\ [](\A p \in DnProcs :
             dn[p].exit \in {"blocked", "delete_error"} =>
                 /\ Cardinality(dn[p].checked) = 1
                 /\ Cardinality(dn[p].deletes) <= 1
                 /\ dn[p].pc \in {"rc_verify", "rc_branch", "rc_update", "done"})
    /\ [][\A p \in DnProcs :
            /\ (dn[p].cand # None /\ dn'[p].cand # None) =>
                   dn'[p].cand = dn[p].cand
            /\ (dn[p].pc \in {"verify", "delete"} /\ dn'[p] # dn[p]) =>
                   dn'[p].pc \in {"delete", "rc_verify"}]_vars

\* a scale-up went through every candidate, a creation among them failed,
\* and returned 503; a scale-down whose delete call failed is over while an
\* older instance it could have taken is available
C32_Witness ==
    /\ up["up1"].pc = "done" /\ up["up1"].result = 503
    /\ Len(up["up1"].probes) = (1 + Len(cfg.types)) * Len(cfg.azs)
    /\ "Aurora Reader Creation Failed" \in up["up1"].notes
    /\ dn["down1"].pc = "done" /\ dn["down1"].exit = "delete_error"
    /\ dn["down1"].deletes = {[stem |-> NAME_PREFIX, n |-> 1]}
    /\ fleet[OldId].status = "available"

(***************************************************************************)
(* C33.  Every instance a scale-up created is recognised by scale-down as  *)
(* owned: its identifier has the prefix scale-down filters on, the tags it *)
(* carries hold every required key with the required value, and once it   *)
(* is available it is in lambda_readers of a listing and passes            *)
(* is_lambda_managed_instance; every verification that found such an       *)
(* instance and read its tags returned True.                               *)
(***************************************************************************)
C33_CreatedRecognised ==
    /\ \A p \in UpProcs : \A k \in 1..Len(up[p].created) :
         LET id == up[p].created[k]
         IN  /\ startswith(id, NAME_PREFIX)
             /\ fleet[id].status # "absent" =>
                    \A key \in DOMAIN REQUIRED_TAGS_FOR_DELETION :
                        TagGet(fleet[id].tags, key) =
                            REQUIRED_TAGS_FOR_DELETION[key]
             /\ fleet[id].status = "available" =>
                    /\ \E inst \in lambda_readers(Snapshot(fleet)) :
                           inst.id = id
                    /\ is_lambda_managed_instance(fleet, id, "ok")
    /\ \A d \in DnProcs : \A v \in dn[d].checked :
         v.id \in generate_unique_db_identifier /\ v.found /\ v.api = "ok"
             => v.ok

\* a scale-down took the available instance of a scale-up as its candidate
\* and verified it
C33_Witness ==
    \E p \in UpProcs, d \in DnProcs :
        /\ Len(up[p].created) > 0
        /\ LET id == up[p].created[1]
           IN  /\ fleet[id].status = "available"
               /\ dn[d].pc = "delete"
               /\ dn[d].cand = id
               /\ \E v \in dn[d].checked : v.id = id /\ v.api = "ok" /\ v.ok

(***************************************************************************)
(* C34.  Scale-down selects and deletes members of the configured cluster  *)
(* only: its candidate is an instance of DB_CLUSTER_ID, and an instance    *)
(* that a step of a scale-down turns to deleting is one of DB_CLUSTER_ID,  *)
(* whatever prefix and tags an instance of another cluster carries.        *)
(***************************************************************************)
C34_TargetClusterOnly ==
    /\ [](\A p \in DnProcs :
             dn[p].pc \in {"verify", "delete"} =>
                 fleet[dn[p].cand].cluster = DB_CLUSTER_ID)
    /\ [][\A id \in AllIds :
             (fleet[id].status # "deleting" /\ fleet'[id].status = "deleting")
                 => fleet[id].cluster = DB_CLUSTER_ID]_vars

\* no call of a scale-down has failed and the pool average it computed was
\* below the threshold
Calm ==
    \A p \in DnProcs :
        /\ dn[p].exit \notin DOMAIN FatalExits
                              \cup {"delete_error", "no_data", "above_threshold"}
        /\ \A v \in dn[p].checked \cup dn[p].rcChecked : v.api = "ok"
        /\ ~SchedulerFailed(dn[p])

(***************************************************************************)
(* C35.  Scale-in makes progress: as long as no call fails and the average *)
(* stays below the threshold, the schedule stays enabled while an owned    *)
(* available instance exists, and every owned available instance is        *)
(* eventually deleted.                                                     *)
(***************************************************************************)
C35_ScaleInProgress ==
    []Calm =>
        /\ []((\E id \in OwnedInstances(fleet) :
                   fleet[id].status = "available") => sched = "ENABLED")
        /\ \A id \in AllIds :
              (id \in OwnedInstances(fleet) /\ fleet[id].status = "available")
                  ~> (fleet[id].status # "available")

\* the scheduler API has not failed in a scale-down
SchedulerCalm == \A p \in DnProcs : ~SchedulerFailed(dn[p])

(***************************************************************************)
(* C36.  Once no owned instance is left, the schedule becomes disabled     *)
(* (unless a scale-up creates an instance first), provided the scheduler   *)
(* API does not fail; a disabled schedule is enabled only by the step of a *)
(* scale-up that has created an instance; and the run that deleted an      *)
(* instance reconciles against the listing made before the deletion, in    *)
(* which the instance is available.                                        *)
(***************************************************************************)
C36_TickDisabledAtLast ==
    /\ []SchedulerCalm =>
           ((OwnedInstances(fleet) = {})
                ~> (sched = "DISABLED" \/ OwnedInstances(fleet) # {}))
    /\ [][(sched = "DISABLED" /\ sched' = "ENABLED") =>
              \E p \in UpProcs : /\ up[p].pc = "en_update"
                                 /\ up[p].created # <<>>
                                 /\ up'[p] # up[p]]_vars
    /\ [](\A d \in DnProcs :
             (dn[d].exit = "deleted" /\ dn[d].rcArgs # <<>>) =>
                 \E inst \in Head(dn[d].rcArgs) :
                     inst.id = dn[d].cand /\ inst.status = "available")

\* the instance of a scale-up is being deleted and a later scale-down run,
\* which deleted nothing, has disabled the schedule
C36_Witness ==
    \E p \in UpProcs, d \in DnProcs :
        /\ up[p].created # <<>>
        /\ fleet[up[p].created[1]].status = "deleting"
        /\ OwnedInstances(fleet) = {}
        /\ dn[d].pc = "done"
        /\ dn[d].deletes = {}
        /\ Last(dn[d].calls) = "disabled"
        /\ sched = "DISABLED"

(***************************************************************************)
(* C37.  A scale-down that read the cluster and the fleet before a         *)
(* scale-up created its instance does not disable the schedule after that  *)
(* scale-up has returned with the schedule enabled: no step of a           *)
(* scale-down without a failed call turns the schedule from ENABLED to     *)
(* DISABLED while the instance of a returned, successful scale-up exists   *)
(* that is neither among the readers nor in the listing the scale-down     *)
(* has read.                                                               *)
(***************************************************************************)
C37_NoDisableAfterEnable ==
    [][\A p \in UpProcs, d \in DnProcs :
         ( /\ up[p].pc = "done" /\ up[p].result = 200
           /\ ~up[p].schedErr
           /\ up[p].created # <<>>
           /\ fleet[up[p].created[1]].status \in {"creating", "available"}
           /\ dn[d].pc = "rc_update"
           /\ dn'[d] # dn[d]
           /\ dn[d].exit \notin DOMAIN FatalExits
           /\ up[p].created[1] \notin dn[d].readers
           /\ \A inst \in Head(dn[d].rcArgs) : inst.id # up[p].created[1]
           /\ sched = "ENABLED" )
         => sched' = "ENABLED"]_vars

====
